---- MODULE Spec2Model ----
(***************************************************************************)
(* Model of the Bedrock geometry viewer (src/minecraftviewer/app.js).      *)
(*                                                                         *)
(* The page script runs bootstrap(): it imports Three.js from a list of    *)
(* CDNs, sets up the scene, camera and orbit controls, and awaits          *)
(* loadModel().  loadModel() fetches the texture and the geometry JSON     *)
(* concurrently, builds one box per cube, and centres and scales the       *)
(* assembled root.  A step of the model is one run of JavaScript between   *)
(* two awaits: the engine never interleaves anything inside such a run.    *)
(*                                                                         *)
(* Numbers are exact rationals <<n, d>> with d > 0, not reduced: REq and   *)
(* VEq compare their values.  JavaScript doubles round; the model does     *)
(* not.  An absent JSON field is the empty tuple <<>>.                     *)
(***************************************************************************)
EXTENDS Integers, Sequences, FiniteSets, TLC

VARIABLES
    pc,          \* where bootstrap()/loadModel() is suspended
    srcIdx,      \* loadThreeWithFallbacks: index of the CDN being tried (0 once it returned)
    info,        \* infoEl.textContent
    err,         \* the error bootstrap() rejected with ("" when none)
    fetchState,  \* per asset: the state of its fetch() promise
    fetchCount,  \* per asset: how many times fetch() was called
    scene,       \* names of the objects added to the scene, in order
    camera,      \* camera position, near and far (<<>> before construction)
    target,      \* controls.target (<<>> before construction)
    geoJson,     \* the parsed document (<<>> before geoResp.json() resolves)
    bones,       \* loadModel's Map bone name -> {def, obj}, in key order
    modelRoot,   \* simpleRoot: position, scale and children (<<>> before built)
    cubeCount,   \* loadModel's cubeCount
    rendering    \* TRUE once animate() has been called

vars == <<pc, srcIdx, info, err, fetchState, fetchCount, scene, camera,
          target, geoJson, bones, modelRoot, cubeCount, rendering>>

-----------------------------------------------------------------------------
(* Exact arithmetic                                                         *)

\* n/d with a positive denominator (d # 0)
Rat(n, d) == IF d < 0 THEN <<-n, -d>> ELSE <<n, d>>

RInt(i) == <<i, 1>>
RAdd(a, b) == Rat(a[1] * b[2] + b[1] * a[2], a[2] * b[2])
RSub(a, b) == Rat(a[1] * b[2] - b[1] * a[2], a[2] * b[2])
RMul(a, b) == Rat(a[1] * b[1], a[2] * b[2])
RDiv(a, b) == Rat(a[1] * b[2], a[2] * b[1])
RNeg(a) == <<-a[1], a[2]>>
REq(a, b) == a[1] * b[2] = b[1] * a[2]
RLe(a, b) == a[1] * b[2] <= b[1] * a[2]
RLt(a, b) == a[1] * b[2] < b[1] * a[2]
RMax(a, b) == IF RLe(a, b) THEN b ELSE a
RMin(a, b) == IF RLe(a, b) THEN a ELSE b

RZero == RInt(0)
ROne == RInt(1)

\* vectors of rationals
VInt(v) == <<RInt(v[1]), RInt(v[2]), RInt(v[3])>>
VAdd(a, b) == <<RAdd(a[1], b[1]), RAdd(a[2], b[2]), RAdd(a[3], b[3])>>
VSub(a, b) == <<RSub(a[1], b[1]), RSub(a[2], b[2]), RSub(a[3], b[3])>>
VScale(s, a) == <<RMul(s, a[1]), RMul(s, a[2]), RMul(s, a[3])>>
VZero == <<RZero, RZero, RZero>>
VEq(a, b) == REq(a[1], b[1]) /\ REq(a[2], b[2]) /\ REq(a[3], b[3])

-----------------------------------------------------------------------------
(* The documents geoResp.json() can resolve with                            *)

MaxBones == 2    \* longest bones array of a structured document
MaxCubes == 2    \* longest cubes array of a bone of a structured document

SeqUpTo(S, n) == UNION {[1..k -> S] : k \in 0..n}

Cube(o, s, p, r, uv, m) ==
    [origin |-> o, size |-> s, pivot |-> p, rotation |-> r, uv |-> uv, mirror |-> m]

\* the cubes of the structured documents
PaletteCubes ==
    { Cube(<<0, 0, 0>>, <<2, 2, 2>>, <<>>, <<>>, <<>>, "absent"),
      Cube(<<-4, 1, 3>>, <<1, 2, 3>>, <<1, 1, 1>>, <<0, 90, 0>>, <<0, 0>>, "true") }

\* the cubes of the single-cube documents: every field varies
Origins == {<<>>, <<0, 0, 0>>, <<-4, 1, 3>>}
Sizes == {<<>>, <<0, 0, 0>>, <<2, 2, 2>>, <<1, 2, 3>>}
Pivots == {<<>>, <<1, 1, 1>>}
Rotations == {<<>>, <<0, 0, 0>>, <<0, 90, 0>>}
UVs == {<<>>, <<0, 0>>, <<3, 5>>, <<60, 60>>, <<-1, 0>>, <<0, 0, 0>>}
Mirrors == {"absent", "true", "false"}

AllCubes ==
    { Cube(o, s, p, r, uv, m) :
        o \in Origins, s \in Sizes, p \in Pivots, r \in Rotations,
        uv \in UVs, m \in Mirrors }

Description(w, h) == [texture_width |-> w, texture_height |-> h]

\* description absent, or present with each dimension absent, 0 or a size
Descriptions ==
    { <<>>, <<Description(<<16>>, <<32>>)>>, <<Description(<<0>>, <<>>)>>,
      <<Description(<<>>, <<8>>)>> }

Bone(n, par, p, cs) == [name |-> n, parent |-> par, pivot |-> p, cubes |-> cs]

\* name, parent and pivot of the bones of the structured documents (a bones
\* array may hold the same name twice)
BoneHeaders ==
    { <<"root", <<>>, <<>>>>,
      <<"arm", <<"root">>, <<0, 5, 0>>>> }

\* cubes absent (<<>>) or a cubes array (<<cs>>)
PaletteBones ==
    { Bone(h[1], h[2], h[3], cs) :
        h \in BoneHeaders,
        cs \in {<<>>} \cup {<<c>> : c \in SeqUpTo(PaletteCubes, MaxCubes)} }

\* an entry of the geometry array: an object, or null
Geom(d, bs) == [kind |-> "object", description |-> d, bones |-> bs]
NullGeom == [kind |-> "null", description |-> <<>>, bones |-> <<>>]

StructuredGeoms ==
    {Geom(<<>>, <<>>)} \cup {Geom(<<>>, <<bs>>) : bs \in SeqUpTo(PaletteBones, MaxBones)}

SingleCubeGeoms ==
    { Geom(d, << <<Bone("root", <<>>, <<>>, << <<c>> >>)>> >>) :
        d \in Descriptions, c \in AllCubes }

\* the entries of the documents whose geometry array has two entries
TwoEntryGeoms ==
    { Geom(<<>>, << <<Bone("root", <<>>, <<>>, << <<c>> >>)>> >>) : c \in PaletteCubes }

\* the value of the field "minecraft:geometry": absent, null, a number, a string
\* of len characters, an object (items: what its key "0" holds, if anything) or
\* an array (items: its entries)
Root(k, n, g) == [kind |-> k, len |-> n, items |-> g]

MalformedRoots ==
    { Root("absent", 0, <<>>), Root("null", 0, <<>>), Root("number", 0, <<>>),
      Root("string", 0, <<>>), Root("string", 3, <<>>),
      Root("object", 0, <<>>), Root("object", 0, <<Geom(<<>>, <<>>)>>),
      Root("array", 0, <<>>), Root("array", 0, <<NullGeom>>) }

Docs ==
    MalformedRoots
    \cup {Root("array", 0, <<g>>) : g \in StructuredGeoms \cup SingleCubeGeoms}
    \cup {Root("array", 0, <<g, h>>) : g \in TwoEntryGeoms, h \in TwoEntryGeoms}

-----------------------------------------------------------------------------
(* loadModel: one box per cube                                              *)

DefaultTexSize == 64
NumUV == 48    \* BoxGeometry: 6 faces * 4 vertices * 2 components

\* x || d for a number field x
OrDefault(opt, d) == IF opt = <<>> \/ opt[1] = 0 THEN d ELSE opt[1]

\* the uv attribute of a new BoxGeometry: each face (0,1),(1,1),(0,0),(1,0).
\* The array is a sequence: uvs[i] of the code is uvs[i + 1] here.
DefaultFaceUV == <<RZero, ROne, ROne, ROne, RZero, RZero, ROne, RZero>>

DefaultUV ==
    DefaultFaceUV \o DefaultFaceUV \o DefaultFaceUV \o DefaultFaceUV
        \o DefaultFaceUV \o DefaultFaceUV

\* setFaceUV without the flip of the vertical axis
setFaceUV_NoVFlip(uvs, faceIndex, ux, uy, uw, uh, mirror, texW, texH) ==
    LET u0 == Rat(ux, texW)
        u1 == Rat(ux + uw, texW)
        vTop == Rat(uy, texH)
        vBottom == Rat(uy + uh, texH)
        iu0 == IF mirror THEN u1 ELSE u0
        iu1 == IF mirror THEN u0 ELSE u1
        offset == faceIndex * 8
    IN  SubSeq(uvs, 1, offset)
            \o <<iu1, vTop, iu0, vTop, iu0, vBottom, iu1, vBottom>>
            \o SubSeq(uvs, offset + 9, NumUV)

\* setFaceUV with u1 = ux + uw / texW
setFaceUV_Precedence(uvs, faceIndex, ux, uy, uw, uh, mirror, texW, texH) ==
    LET u0 == Rat(ux, texW)
        u1 == RAdd(RInt(ux), Rat(uw, texW))
        vTop == RSub(ROne, Rat(uy, texH))
        vBottom == RSub(ROne, Rat(uy + uh, texH))
        iu0 == IF mirror THEN u1 ELSE u0
        iu1 == IF mirror THEN u0 ELSE u1
        offset == faceIndex * 8
    IN  SubSeq(uvs, 1, offset)
            \o <<iu1, vTop, iu0, vTop, iu0, vBottom, iu1, vBottom>>
            \o SubSeq(uvs, offset + 9, NumUV)

\* setFaceUV with mirror flipping the face both ways
setFaceUV_MirrorFlipsV(uvs, faceIndex, ux, uy, uw, uh, mirror, texW, texH) ==
    LET u0 == Rat(ux, texW)
        u1 == Rat(ux + uw, texW)
        vTop == RSub(ROne, Rat(uy, texH))
        vBottom == RSub(ROne, Rat(uy + uh, texH))
        iu0 == IF mirror THEN u1 ELSE u0
        iu1 == IF mirror THEN u0 ELSE u1
        iv0 == IF mirror THEN vTop ELSE vBottom
        iv1 == IF mirror THEN vBottom ELSE vTop
        offset == faceIndex * 8
    IN  SubSeq(uvs, 1, offset)
            \o <<iu1, iv1, iu0, iv1, iu0, iv0, iu1, iv0>>
            \o SubSeq(uvs, offset + 9, NumUV)

setFaceUV(uvs, faceIndex, ux, uy, uw, uh, mirror, texW, texH) ==
    LET u0 == Rat(ux, texW)
        u1 == Rat(ux + uw, texW)
        vTop == RSub(ROne, Rat(uy, texH))
        vBottom == RSub(ROne, Rat(uy + uh, texH))
        iu0 == IF mirror THEN u1 ELSE u0
        iu1 == IF mirror THEN u0 ELSE u1
        offset == faceIndex * 8
    IN  SubSeq(uvs, 1, offset)
            \o <<iu1, vTop, iu0, vTop, iu0, vBottom, iu1, vBottom>>
            \o SubSeq(uvs, offset + 9, NumUV)

\* the six setFaceUV calls of a cube whose uv is a 2-element array
FaceUVs(u, v, w, h, d, mirror, texW, texH) ==
    LET g0 == setFaceUV(DefaultUV, 0, u + d + w, v + d, d, h, mirror, texW, texH)
        g1 == setFaceUV(g0, 1, u, v + d, d, h, mirror, texW, texH)
        g2 == setFaceUV(g1, 2, u + d, v, w, d, mirror, texW, texH)
        g3 == setFaceUV(g2, 3, u + d + w, v, w, d, mirror, texW, texH)
        g4 == setFaceUV(g3, 4, u + d, v + d, w, h, mirror, texW, texH)
    IN  setFaceUV(g4, 5, u + d + w + d, v + d, w, h, mirror, texW, texH)

\* new THREE.BoxGeometry(sx, sy, sz) with the cube's UVs applied
BoxGeometry(cube, size, texW, texH) ==
    [size |-> size,
     uv |-> IF Len(cube.uv) = 2
            THEN FaceUVs(cube.uv[1], cube.uv[2], size[1], size[2], size[3],
                         cube.mirror = "true", texW, texH)
            ELSE DefaultUV]

\* THREE.MathUtils.degToRad, the angle in units of pi
degToRad(deg) == Rat(deg, 180)

\* center = origin + size/2
CubeCenter(origin, size) ==
    <<RAdd(RInt(origin[1]), Rat(size[1], 2)),
      RAdd(RInt(origin[2]), Rat(size[2], 2)),
      RAdd(RInt(origin[3]), Rat(size[3], 2))>>

Mesh(geometry, position, src) ==
    [type |-> "Mesh", position |-> position, rotation |-> VZero,
     geometry |-> <<geometry>>, children |-> <<>>, cube |-> src]

Group(position, rotation, mesh) ==
    [type |-> "Object3D", position |-> position, rotation |-> rotation,
     geometry |-> <<>>, children |-> <<mesh>>, cube |-> mesh.cube]

\* BuildCube with the mesh left at center inside its group
BuildCube_OffsetNotSubtracted(cube, texW, texH, src) ==
    LET origin == IF cube.origin = <<>> THEN <<0, 0, 0>> ELSE cube.origin
        size == IF cube.size = <<>> THEN <<1, 1, 1>> ELSE cube.size
        geometry == BoxGeometry(cube, size, texW, texH)
        center == CubeCenter(origin, size)
    IN  IF cube.pivot # <<>> \/ cube.rotation # <<>>
        THEN LET cPivot == IF cube.pivot = <<>> THEN <<0, 0, 0>> ELSE cube.pivot
                 rot == IF cube.rotation = <<>>
                        THEN VZero
                        ELSE <<degToRad(cube.rotation[1]), degToRad(cube.rotation[2]),
                               degToRad(cube.rotation[3])>>
             IN  Group(VInt(cPivot), rot, Mesh(geometry, center, src))
        ELSE Mesh(geometry, center, src)

\* what one pass of the cube loop adds to simpleRoot; src is the place of the
\* cube in the document, <<bone index, cube index>> (kept for the properties)
BuildCube(cube, texW, texH, src) ==
    LET origin == IF cube.origin = <<>> THEN <<0, 0, 0>> ELSE cube.origin
        size == IF cube.size = <<>> THEN <<1, 1, 1>> ELSE cube.size
        geometry == BoxGeometry(cube, size, texW, texH)
        center == CubeCenter(origin, size)
    IN  IF cube.pivot # <<>> \/ cube.rotation # <<>>
        THEN LET cPivot == IF cube.pivot = <<>> THEN <<0, 0, 0>> ELSE cube.pivot
                 rot == IF cube.rotation = <<>>
                        THEN VZero
                        ELSE <<degToRad(cube.rotation[1]), degToRad(cube.rotation[2]),
                               degToRad(cube.rotation[3])>>
             IN  Group(VInt(cPivot), rot,
                       Mesh(geometry, VSub(center, VInt(cPivot)), src))
        ELSE Mesh(geometry, center, src)

-----------------------------------------------------------------------------
(* loadModel: the bones map and the simple builder                          *)

\* geoJson['minecraft:geometry'][0] throws a TypeError
IndexThrows(root) == root.kind \in {"absent", "null"}

\* geoJson['minecraft:geometry'][0]: an entry, a character of a string, or
\* undefined
FirstGeom(root) ==
    CASE root.kind \in {"array", "object"} /\ root.items # <<>> -> root.items[1]
      [] root.kind = "string" /\ root.len > 0 ->
            [kind |-> "char", description |-> <<>>, bones |-> <<>>]
      [] OTHER -> [kind |-> "undefined", description |-> <<>>, bones |-> <<>>]

\* geom.description throws a TypeError
DescriptionThrows(geom) == geom.kind \in {"undefined", "null"}

TexW(geom) ==
    IF geom.description = <<>> THEN DefaultTexSize
    ELSE OrDefault(geom.description[1].texture_width, DefaultTexSize)

TexH(geom) ==
    IF geom.description = <<>> THEN DefaultTexSize
    ELSE OrDefault(geom.description[1].texture_height, DefaultTexSize)

\* geom.bones || []
BonesOf(geom) == IF geom.bones = <<>> THEN <<>> ELSE geom.bones[1]

\* Map.prototype.set: a new key goes last, a known key keeps its place and
\* takes the new value
MapSet(m, e) ==
    IF \E i \in DOMAIN m : m[i].name = e.name
    THEN [i \in DOMAIN m |-> IF m[i].name = e.name THEN e ELSE m[i]]
    ELSE Append(m, e)

MapHas(m, name) == \E i \in DOMAIN m : m[i].name = name

\* the first loop: one entry {def, obj} per bone, obj positioned at the pivot;
\* idx is the place of def in the bones array
RECURSIVE BonesMap(_, _)
BonesMap(bs, n) ==
    IF n = 0 THEN <<>>
    ELSE LET b == bs[n]
             p == IF b.pivot = <<>> THEN <<0, 0, 0>> ELSE b.pivot
         IN  MapSet(BonesMap(bs, n - 1),
                    [name |-> b.name, def |-> b, idx |-> n,
                     obj |-> [name |-> b.name, position |-> VInt(p),
                              children |-> <<>>]])

\* the second loop: each bone's obj is added to its parent's obj (Object3D.add
\* refuses to add an object to itself)
Attach(m, e) ==
    IF e.def.parent # <<>> /\ MapHas(m, e.def.parent[1]) /\ e.def.parent[1] # e.name
    THEN [i \in DOMAIN m |->
            IF m[i].name = e.def.parent[1]
            THEN [m[i] EXCEPT !.obj.children = Append(@, e.name)]
            ELSE m[i]]
    ELSE m

RECURSIVE AttachParents(_, _)
AttachParents(m, n) ==
    IF n = 0 THEN m ELSE Attach(AttachParents(m, n - 1), m[n])

\* the bones map after both loops
BonesOfModel(bs) == AttachParents(BonesMap(bs, Len(bs)), Len(BonesMap(bs, Len(bs))))

\* BoneBoxes leaving the loop after the first cube
BoneBoxes_FirstCubeOnly(entry, texW, texH) ==
    IF entry.def.cubes = <<>> \/ entry.def.cubes[1] = <<>> THEN <<>>
    ELSE <<BuildCube(entry.def.cubes[1][1], texW, texH, <<entry.idx, 1>>)>>

\* the cubes loop of one bone
BoneBoxes(entry, texW, texH) ==
    IF entry.def.cubes = <<>> THEN <<>>
    ELSE LET cs == entry.def.cubes[1]
         IN  [k \in 1..Len(cs) |-> BuildCube(cs[k], texW, texH, <<entry.idx, k>>)]

\* the simple builder: the children of simpleRoot, in the order of the map
RECURSIVE SimpleBuilder(_, _, _, _)
SimpleBuilder(m, n, texW, texH) ==
    IF n = 0 THEN <<>>
    ELSE SimpleBuilder(m, n - 1, texW, texH) \o BoneBoxes(m[n], texW, texH)

-----------------------------------------------------------------------------
(* loadModel: bounding box, centring and scaling                            *)

desired == 60

\* a rotation of the model's documents applied to v: none, or a quarter turn
\* about Y, which takes (x, y, z) to (z, y, -x)
Rotate(rot, v) ==
    CASE VEq(rot, VZero) -> v
      [] VEq(rot, <<RZero, Rat(1, 2), RZero>>) -> <<v[3], v[2], RNeg(v[1])>>

\* a point of a child's geometry in the coordinates of simpleRoot
ToRoot(child, v) ==
    IF child.type = "Mesh"
    THEN VAdd(child.position, v)
    ELSE VAdd(child.position,
              Rotate(child.rotation, VAdd(child.children[1].position, v)))

\* the box of one child: its geometry's box (-size/2 .. size/2) under the
\* child's transform.  Box3.applyMatrix4 maps the eight corners and takes
\* their minimum and maximum; a transform that takes axes to axes, as every
\* transform of the model does, attains both at the images of two opposite
\* corners.
BoxOfPoints(p, q) ==
    [empty |-> FALSE,
     min |-> <<RMin(p[1], q[1]), RMin(p[2], q[2]), RMin(p[3], q[3])>>,
     max |-> <<RMax(p[1], q[1]), RMax(p[2], q[2]), RMax(p[3], q[3])>>]

GeometrySize(child) ==
    IF child.type = "Mesh" THEN child.geometry[1].size
    ELSE child.children[1].geometry[1].size

ChildBoxOfSize(child, size) ==
    BoxOfPoints(ToRoot(child, <<Rat(-size[1], 2), Rat(-size[2], 2), Rat(-size[3], 2)>>),
                ToRoot(child, <<Rat(size[1], 2), Rat(size[2], 2), Rat(size[3], 2)>>))

ChildBox(child) == ChildBoxOfSize(child, GeometrySize(child))

\* Box3.union; an empty box (min +Infinity, max -Infinity) adds nothing
BoxUnion(a, b) ==
    IF a.empty THEN b
    ELSE [empty |-> FALSE,
          min |-> <<RMin(a.min[1], b.min[1]), RMin(a.min[2], b.min[2]),
                    RMin(a.min[3], b.min[3])>>,
          max |-> <<RMax(a.max[1], b.max[1]), RMax(a.max[2], b.max[2]),
                    RMax(a.max[3], b.max[3])>>]

\* Box3.expandByObject over the first n children
RECURSIVE ExpandByChildren(_, _)
ExpandByChildren(children, n) ==
    IF n = 0 THEN [empty |-> TRUE, min |-> VZero, max |-> VZero]
    ELSE BoxUnion(ExpandByChildren(children, n - 1), ChildBox(children[n]))

\* new THREE.Box3().setFromObject(modelRoot), modelRoot untransformed
setFromObject(children) == ExpandByChildren(children, Len(children))

getSize(box) == VSub(box.max, box.min)
getCenter(box) == VScale(Rat(1, 2), VAdd(box.min, box.max))

MaxDim(size) == RMax(size[1], RMax(size[2], size[3]))

\* FitScale with the quotient inverted
FitScale_Inverted(maxDim) ==
    IF RLt(RZero, maxDim)
    THEN LET s == RDiv(maxDim, RInt(desired)) IN <<s, s, s>>
    ELSE <<ROne, ROne, ROne>>

\* modelRoot.scale after the scaling step
FitScale(maxDim) ==
    IF RLt(RZero, maxDim)
    THEN LET s == RDiv(RInt(desired), maxDim) IN <<s, s, s>>
    ELSE <<ROne, ROne, ROne>>

\* modelRoot.position after position.sub(center)
Centered(position, center) == VSub(position, center)

\* the camera after the framing step
Framing(size) ==
    LET dist == RMul(RInt(2), MaxDim(size))
    IN  [position |-> <<RMul(dist, Rat(8, 10)), RMul(dist, Rat(6, 10)),
                        RMul(dist, Rat(12, 10))>>,
         near |-> Rat(1, 10),
         far |-> RAdd(RMul(dist, RInt(10)), RInt(100))]

-----------------------------------------------------------------------------
(* bootstrap() and loadModel() as a state machine                           *)

NumSources == 3

Assets == {"default.png", "example_stand.geo.json"}

InitialCamera ==
    [position |-> VInt(<<80, 60, 120>>), near |-> Rat(1, 10), far |-> RInt(5000)]

InitialTarget == VInt(<<0, 18, 0>>)

\* the module is evaluated: bootstrap() runs up to its first await
Init ==
    /\ pc = "importThree"
    /\ srcIdx = 1
    /\ info = <<"Loading Three.js">>
    /\ err = ""
    /\ fetchState = [a \in Assets |-> "idle"]
    /\ fetchCount = [a \in Assets |-> 0]
    /\ scene = <<>>
    /\ camera = <<>>
    /\ target = <<>>
    /\ geoJson = <<>>
    /\ bones = <<>>
    /\ modelRoot = <<>>
    /\ cubeCount = 0
    /\ rendering = FALSE

\* bootstrap() rejects with e and its catch handler writes the status
Fail(e) ==
    /\ pc' = "failed"
    /\ err' = e
    /\ info' = <<"Failed to initialize Three.js", e>>

\* import(src.three) resolves
ImportThreeOk ==
    /\ pc = "importThree"
    /\ pc' = "importControls"
    /\ UNCHANGED <<srcIdx, info, err, fetchState, fetchCount, scene, camera,
                   target, geoJson, bones, modelRoot, cubeCount, rendering>>

\* an import of the current source rejects: the next source, or the failure
ImportFail ==
    /\ pc \in {"importThree", "importControls"}
    /\ IF srcIdx < NumSources
       THEN /\ srcIdx' = srcIdx + 1
            /\ pc' = "importThree"
            /\ UNCHANGED <<info, err>>
       ELSE /\ Fail("ImportError")
            /\ UNCHANGED srcIdx
    /\ UNCHANGED <<fetchState, fetchCount, scene, camera, target, geoJson,
                   bones, modelRoot, cubeCount, rendering>>

\* import(src.controls) resolves: bootstrap() sets the scene up and calls
\* loadModel(), which issues both fetches and awaits Promise.all
ImportControlsOk ==
    /\ pc = "importControls"
    /\ info' = <<"Loading model">>
    /\ camera' = InitialCamera
    /\ target' = InitialTarget
    /\ scene' = <<"AmbientLight", "DirectionalLight", "GridHelper", "AxesHelper">>
    /\ fetchState' = [a \in Assets |-> "pending"]
    /\ fetchCount' = [a \in Assets |-> fetchCount[a] + 1]
    /\ pc' = "awaitFetches"
    /\ srcIdx' = 0
    /\ UNCHANGED <<err, geoJson, bones, modelRoot, cubeCount, rendering>>

\* FetchResolve without the check of the responses
FetchResolve_NoOkCheck(a, ok) ==
    /\ fetchState[a] = "pending"
    /\ fetchState' = [fetchState EXCEPT ![a] = IF ok THEN "ok" ELSE "notok"]
    /\ IF pc = "awaitFetches" /\ \A b \in Assets \ {a} : fetchState[b] \in {"ok", "notok"}
       THEN pc' = "awaitBlob" /\ UNCHANGED <<info, err>>
       ELSE UNCHANGED <<pc, info, err>>
    /\ UNCHANGED <<srcIdx, fetchCount, scene, camera, target, geoJson, bones,
                   modelRoot, cubeCount, rendering>>

\* a fetch resolves with a response, ok or not; when it is Promise.all's last
\* one, loadModel() resumes in the same turn and checks both responses
FetchResolve(a, ok) ==
    /\ fetchState[a] = "pending"
    /\ fetchState' = [fetchState EXCEPT ![a] = IF ok THEN "ok" ELSE "notok"]
    /\ IF pc = "awaitFetches" /\ \A b \in Assets \ {a} : fetchState[b] \in {"ok", "notok"}
       THEN IF \A b \in Assets : fetchState'[b] = "ok"
            THEN pc' = "awaitBlob" /\ UNCHANGED <<info, err>>
            ELSE Fail("Missing files")
       ELSE UNCHANGED <<pc, info, err>>
    /\ UNCHANGED <<srcIdx, fetchCount, scene, camera, target, geoJson, bones,
                   modelRoot, cubeCount, rendering>>

\* a fetch rejects: Promise.all rejects at once
FetchReject(a) ==
    /\ fetchState[a] = "pending"
    /\ fetchState' = [fetchState EXCEPT ![a] = "rejected"]
    /\ IF pc = "awaitFetches"
       THEN Fail("NetworkError")
       ELSE UNCHANGED <<pc, info, err>>
    /\ UNCHANGED <<srcIdx, fetchCount, scene, camera, target, geoJson, bones,
                   modelRoot, cubeCount, rendering>>

\* texResp.blob() resolves and the texture loader starts
BlobResolved ==
    /\ pc = "awaitBlob"
    /\ pc' = "awaitTexture"
    /\ UNCHANGED <<srcIdx, info, err, fetchState, fetchCount, scene, camera,
                   target, geoJson, bones, modelRoot, cubeCount, rendering>>

\* the texture is ready and geoResp.json() is called
TextureLoaded ==
    /\ pc = "awaitTexture"
    /\ pc' = "awaitJson"
    /\ UNCHANGED <<srcIdx, info, err, fetchState, fetchCount, scene, camera,
                   target, geoJson, bones, modelRoot, cubeCount, rendering>>

\* texResp.blob(), the texture loader or geoResp.json() rejects
AwaitRejected ==
    /\ pc \in {"awaitBlob", "awaitTexture", "awaitJson"}
    /\ Fail(CASE pc = "awaitBlob" -> "BlobError"
              [] pc = "awaitTexture" -> "TextureError"
              [] pc = "awaitJson" -> "SyntaxError")
    /\ UNCHANGED <<srcIdx, fetchState, fetchCount, scene, camera, target,
                   geoJson, bones, modelRoot, cubeCount, rendering>>

\* geoResp.json() resolves with doc: the rest of loadModel() runs, and when it
\* returns bootstrap() resumes in the same turn and starts the render loop
\* Normalize without the test of box.isEmpty()
Normalize_NoEmptyCheck(map, children, box, size) ==
    /\ bones' = map
    /\ cubeCount' = Len(children)
    /\ scene' = Append(scene, "modelRoot")
    /\ modelRoot' = <<[position |-> Centered(VZero, getCenter(box)),
                       scale |-> FitScale(MaxDim(size)),
                       children |-> children]>>
    /\ target' = VZero
    /\ camera' = Framing(size)
    /\ info' = <<"Drag to orbit, scroll to zoom">>
    /\ err' = err
    /\ rendering' = TRUE
    /\ pc' = "running"

\* the end of loadModel(): centring, scaling and framing, then the end of
\* bootstrap()
Normalize(map, children, box, size) ==
    /\ bones' = map
    /\ cubeCount' = Len(children)
    /\ scene' = Append(scene, "modelRoot")
    /\ IF ~box.empty
       THEN /\ modelRoot' = <<[position |-> Centered(VZero, getCenter(box)),
                               scale |-> FitScale(MaxDim(size)),
                               children |-> children]>>
            /\ target' = VZero
            /\ camera' = Framing(size)
       ELSE /\ modelRoot' = <<[position |-> VZero,
                               scale |-> <<ROne, ROne, ROne>>,
                               children |-> children]>>
            /\ UNCHANGED <<target, camera>>
    /\ info' = <<"Drag to orbit, scroll to zoom">>
    /\ err' = err
    /\ rendering' = TRUE
    /\ pc' = "running"

Measure(map, children, box) == Normalize(map, children, box, getSize(box))

Assemble(map, children) == Measure(map, children, setFromObject(children))

BuildBoxes(geom, map) ==
    Assemble(map, SimpleBuilder(map, Len(map), TexW(geom), TexH(geom)))

BuildModel(doc) ==
    /\ geoJson' = <<doc>>
    /\ IF IndexThrows(doc) \/ DescriptionThrows(FirstGeom(doc))
       THEN /\ Fail("TypeError")
            /\ UNCHANGED <<bones, modelRoot, cubeCount, scene, camera, target,
                           rendering>>
       ELSE BuildBoxes(FirstGeom(doc), BonesOfModel(BonesOf(FirstGeom(doc))))
    /\ UNCHANGED <<srcIdx, fetchState, fetchCount>>

JsonResolved ==
    /\ pc = "awaitJson"
    /\ \E doc \in Docs : BuildModel(doc)

\* a frame of the render loop: animate() asks for the next frame and renders
AnimationFrame ==
    /\ pc = "running"
    /\ rendering
    /\ UNCHANGED vars

Next ==
    \/ ImportThreeOk
    \/ ImportFail
    \/ ImportControlsOk
    \/ \E a \in Assets, ok \in BOOLEAN : FetchResolve(a, ok)
    \/ \E a \in Assets : FetchReject(a)
    \/ BlobResolved
    \/ TextureLoaded
    \/ AwaitRejected
    \/ JsonResolved
    \/ AnimationFrame

Spec == Init /\ [][Next]_vars

-----------------------------------------------------------------------------
(* What the properties read from a state                                    *)

\* loadModel() returned and bootstrap() finished
Loaded == pc = "running"

\* the bones array of the first geometry entry of the parsed document
InputBones ==
    IF geoJson = <<>> \/ geoJson[1].items = <<>> \/ geoJson[1].items[1].bones = <<>>
    THEN <<>>
    ELSE geoJson[1].items[1].bones[1]

\* the description's texture size, 64 when absent or 0
InputTexSize(field) ==
    LET d == geoJson[1].items[1].description
    IN  IF d = <<>> THEN 64
        ELSE LET x == IF field = "w" THEN d[1].texture_width ELSE d[1].texture_height
             IN  IF x = <<>> \/ x[1] = 0 THEN 64 ELSE x[1]

Children == IF modelRoot = <<>> THEN <<>> ELSE modelRoot[1].children

\* the cube of the document a child of the root was built from
SourceCube(child) == InputBones[child.cube[1]].cubes[1][child.cube[2]]

SourceOrigin(child) ==
    IF SourceCube(child).origin = <<>> THEN <<0, 0, 0>> ELSE SourceCube(child).origin

SourceSize(child) ==
    IF SourceCube(child).size = <<>> THEN <<1, 1, 1>> ELSE SourceCube(child).size

SourcePivot(child) ==
    IF SourceCube(child).pivot = <<>> THEN <<0, 0, 0>> ELSE SourceCube(child).pivot

MeshOf(child) == IF child.type = "Mesh" THEN child ELSE child.children[1]

UVOf(child) == MeshOf(child).geometry[1].uv

UVMapped(child) == Len(SourceCube(child).uv) = 2

\* the U values and the V values written for face f (0..5)
FaceU(uvs, f) == {uvs[8 * f + 1], uvs[8 * f + 3], uvs[8 * f + 5], uvs[8 * f + 7]}
FaceV(uvs, f) == {uvs[8 * f + 2], uvs[8 * f + 4], uvs[8 * f + 6], uvs[8 * f + 8]}

\* the values of S range from lo to hi
Spans(S, lo, hi) ==
    /\ \E a \in S : REq(a, lo)
    /\ \E a \in S : REq(a, hi)
    /\ \A a \in S : RLe(lo, a) /\ RLe(a, hi)

\* the texel rectangle <<x, y, width, height>> of face f in the cube net
NetRect(f, u, v, w, h, d) ==
    CASE f = 0 -> <<u + d + w, v + d, d, h>>
      [] f = 1 -> <<u, v + d, d, h>>
      [] f = 2 -> <<u + d, v, w, d>>
      [] f = 3 -> <<u + d + w, v, w, d>>
      [] f = 4 -> <<u + d, v + d, w, h>>
      [] f = 5 -> <<u + d + w + d, v + d, w, h>>

ChildRect(child, f) ==
    NetRect(f, SourceCube(child).uv[1], SourceCube(child).uv[2],
            SourceSize(child)[1], SourceSize(child)[2], SourceSize(child)[3])

\* every cube of the bones array as <<bone index, cube index>>, bone by bone
RECURSIVE Traversal(_, _)
Traversal(bs, n) ==
    IF n = 0 THEN <<>>
    ELSE Traversal(bs, n - 1)
            \o (IF bs[n].cubes = <<>> THEN <<>>
                ELSE [k \in 1..Len(bs[n].cubes[1]) |-> <<n, k>>])

BoxSources == [i \in 1..Len(Children) |-> Children[i].cube]

DistinctNames(bs) ==
    \A i, j \in 1..Len(bs) : i # j => bs[i].name # bs[j].name

OneBoxPerCube ==
    /\ BoxSources = Traversal(InputBones, Len(InputBones))
    /\ cubeCount = Len(Traversal(InputBones, Len(InputBones)))
    /\ \A i \in 1..Len(Children) :
          MeshOf(Children[i]).geometry[1].size = SourceSize(Children[i])

-----------------------------------------------------------------------------
(* Properties                                                               *)

\* C1 as stated: after a load of any model the children of the root are one
\* box per cube of the first geometry entry, in bone-then-cube order, and
\* cubeCount is the number of cubes.
C1_AnyModelOneBoxPerCube == Loaded => OneBoxPerCube

\* C1 amended: after a load of a model whose bones have pairwise distinct
\* names, the children of the root are one box per cube of the first geometry
\* entry, in bone-then-cube order, and cubeCount is the number of cubes.
C1_DistinctNamesOneBoxPerCube ==
    (Loaded /\ DistinctNames(InputBones)) => OneBoxPerCube

C1_Witness ==
    /\ Loaded
    /\ Len(InputBones) = 2
    /\ DistinctNames(InputBones)
    /\ \A i \in 1..2 : InputBones[i].cubes # <<>> /\ Len(InputBones[i].cubes[1]) = 2
    /\ InputBones[1].cubes[1][1] # InputBones[1].cubes[1][2]

C3_MalformedRootFails ==
    (geoJson # <<>> /\ (geoJson[1].kind # "array" \/ geoJson[1].items = <<>>)) =>
        /\ pc = "failed"
        /\ info[1] = "Failed to initialize Three.js"
        /\ modelRoot = <<>>
        /\ ~rendering

\* the centre of the boxes' bounding box, in the coordinates of the root
AuthoredCenter ==
    LET box == setFromObject(Children)
    IN  <<Rat(box.min[1][1] * box.max[1][2] + box.max[1][1] * box.min[1][2],
              2 * box.min[1][2] * box.max[1][2]),
          Rat(box.min[2][1] * box.max[2][2] + box.max[2][1] * box.min[2][2],
              2 * box.min[2][2] * box.max[2][2]),
          Rat(box.min[3][1] * box.max[3][2] + box.max[3][1] * box.min[3][2],
              2 * box.min[3][2] * box.max[3][2])>>

\* the extent of the boxes' bounding box along axis i
AuthoredSize(i) ==
    LET box == setFromObject(Children) IN RSub(box.max[i], box.min[i])

\* where the root's transform puts a point of the root's coordinates
PlacedInScene(v) ==
    <<RAdd(modelRoot[1].position[1], RMul(modelRoot[1].scale[1], v[1])),
      RAdd(modelRoot[1].position[2], RMul(modelRoot[1].scale[2], v[2])),
      RAdd(modelRoot[1].position[3], RMul(modelRoot[1].scale[3], v[3]))>>

\* C4 as stated: after a load that built at least one box, the root's
\* position is the negative of the bounding-box centre, and the centre as
\* placed in the scene (position + scale * centre) is the origin, where the
\* orbit target is.
C4_CenteredAtOrigin ==
    (Loaded /\ Children # <<>>) =>
        /\ VEq(modelRoot[1].position,
               <<RNeg(AuthoredCenter[1]), RNeg(AuthoredCenter[2]), RNeg(AuthoredCenter[3])>>)
        /\ VEq(PlacedInScene(AuthoredCenter), VZero)
        /\ VEq(target, VZero)

\* C5: after a load that built at least one box, with maxDimension the largest
\* extent of the bounding box: if maxDimension > 0 then maxDimension * scale
\* is 60 on every axis, and if maxDimension = 0 the scale is 1.
C5_ScaleToDesired ==
    (Loaded /\ Children # <<>>) =>
        \E m \in 1..3 :
            /\ \A i \in 1..3 : RLe(AuthoredSize(i), AuthoredSize(m))
            /\ IF RLt(RZero, AuthoredSize(m))
               THEN \A i \in 1..3 :
                        REq(RMul(AuthoredSize(m), modelRoot[1].scale[i]), <<60, 1>>)
               ELSE \A i \in 1..3 : REq(modelRoot[1].scale[i], <<1, 1>>)

C5_Witness ==
    /\ Loaded
    /\ Len(Children) = 2
    /\ \E i \in 1..3 : RLt(<<4, 1>>, AuthoredSize(i))
    /\ ~REq(modelRoot[1].scale[1], <<1, 1>>)

\* origin + size/2 of the cube a child was built from
SourceCenter(child) ==
    <<<<2 * SourceOrigin(child)[1] + SourceSize(child)[1], 2>>,
      <<2 * SourceOrigin(child)[2] + SourceSize(child)[2], 2>>,
      <<2 * SourceOrigin(child)[3] + SourceSize(child)[3], 2>>>>

RotationZero(cube) == cube.rotation = <<>> \/ cube.rotation = <<0, 0, 0>>

\* C6: for every cube whose rotation is absent or all zero: if pivot or
\* rotation is present, the box is the one mesh of a group at pivot (default
\* origin) and its offset in the group is center - pivot, so that group
\* position + offset = center = origin + size/2; if neither is present, the
\* box is a mesh directly under the root at center.
C6_ZeroRotationPlacedAtCenter ==
    Loaded =>
        \A i \in 1..Len(Children) :
            LET child == Children[i]
                cube == SourceCube(child)
                center == SourceCenter(child)
            IN  RotationZero(cube) =>
                    IF cube.pivot # <<>> \/ cube.rotation # <<>>
                    THEN /\ child.type = "Object3D"
                         /\ Len(child.children) = 1
                         /\ VEq(child.position, VInt(SourcePivot(child)))
                         /\ VEq(child.rotation, VZero)
                         /\ VEq(child.children[1].position,
                                VSub(center, VInt(SourcePivot(child))))
                         /\ VEq(VAdd(child.position, child.children[1].position), center)
                    ELSE /\ child.type = "Mesh"
                         /\ VEq(child.position, center)

C6_Witness ==
    /\ Loaded
    /\ Len(Children) = 1
    /\ SourceCube(Children[1]).rotation = <<0, 0, 0>>
    /\ SourceCube(Children[1]).pivot = <<1, 1, 1>>
    /\ SourceCube(Children[1]).origin = <<-4, 1, 3>>
    /\ Children[1].type = "Object3D"

InUnitRange(a) == RLe(<<0, 1>>, a) /\ RLe(a, <<1, 1>>)

\* C7 as stated: every U and V value of every box lies in [0,1].
C7_AllUVInUnitRange ==
    Loaded =>
        \A i \in 1..Len(Children) :
            \A k \in 1..48 : InUnitRange(UVOf(Children[i])[k])

\* C7 amended: every U and V value written for a face lies in [0,1] whenever
\* the face's rectangle (x, y, rw, rh) of the cube net lies inside the texture:
\* 0 <= x, x + rw <= W, 0 <= y and y + rh <= H, with rw, rh >= 0.
C7_UVInUnitRangeInsideTexture ==
    Loaded =>
        \A i \in 1..Len(Children) :
            UVMapped(Children[i]) =>
                \A f \in 0..5 :
                    LET r == ChildRect(Children[i], f)
                    IN  ( /\ 0 <= r[1] /\ 0 <= r[3] /\ r[1] + r[3] <= InputTexSize("w")
                          /\ 0 <= r[2] /\ 0 <= r[4] /\ r[2] + r[4] <= InputTexSize("h") )
                        => \A a \in FaceU(UVOf(Children[i]), f)
                                    \cup FaceV(UVOf(Children[i]), f) : InUnitRange(a)

C7_Witness ==
    /\ Loaded
    /\ Len(Children) = 1
    /\ SourceCube(Children[1]).uv = <<3, 5>>
    /\ SourceSize(Children[1]) = <<1, 2, 3>>
    /\ InputTexSize("w") = 16
    /\ \A k \in 1..48 : InUnitRange(UVOf(Children[1])[k])
    /\ \E k \in 1..48 : ~REq(UVOf(Children[1])[k], <<0, 1>>)
                        /\ ~REq(UVOf(Children[1])[k], <<1, 1>>)

\* the uv array the same cube gets with mirror false
Unmirrored(child) ==
    BoxGeometry([SourceCube(child) EXCEPT !.mirror = "false"], SourceSize(child),
                InputTexSize("w"), InputTexSize("h")).uv

C9_EmptyModelSkipsFraming ==
    /\ []((Loaded /\ Children = <<>>) =>
            /\ VEq(modelRoot[1].position, <<<<0, 1>>, <<0, 1>>, <<0, 1>>>>)
            /\ VEq(modelRoot[1].scale, <<<<1, 1>>, <<1, 1>>, <<1, 1>>>>)
            /\ VEq(camera.position, <<<<80, 1>>, <<60, 1>>, <<120, 1>>>>)
            /\ REq(camera.near, <<1, 10>>)
            /\ REq(camera.far, <<5000, 1>>)
            /\ VEq(target, <<<<0, 1>>, <<18, 1>>, <<0, 1>>>>)
            /\ \E k \in 1..Len(scene) : scene[k] = "modelRoot")
    /\ [][(pc = "awaitJson" /\ pc' = "running" /\ modelRoot'[1].children = <<>>) =>
            (camera' = camera /\ target' = target)]_vars

C9_Witness ==
    /\ Loaded
    /\ Children = <<>>
    /\ Len(InputBones) = 2

AnyFetchFailed == \E a \in Assets : fetchState[a] \in {"notok", "rejected"}

\* C10: the parts of loadModel() after the join run only with both fetches
\* resolved ok; each asset is fetched at most once; once a fetch is not ok or
\* rejected, no box exists, the render loop is not running, and the load has
\* failed with the failure status shown, unless Promise.all still waits for
\* the other fetch; a failed load stays failed with its status.
C10_FetchJoinAndTerminalFailure ==
    /\ []( /\ (pc \in {"awaitBlob", "awaitTexture", "awaitJson", "running"}
                  \/ geoJson # <<>> \/ modelRoot # <<>>)
              => \A a \in Assets : fetchState[a] = "ok"
           /\ \A a \in Assets : fetchCount[a] <= 1
           /\ AnyFetchFailed =>
                /\ modelRoot = <<>>
                /\ cubeCount = 0
                /\ ~rendering
                /\ \/ pc = "failed" /\ info[1] = "Failed to initialize Three.js"
                   \/ /\ pc = "awaitFetches"
                      /\ \E a \in Assets : fetchState[a] = "pending"
                      /\ \A a \in Assets : fetchState[a] # "rejected" )
    /\ [][pc = "failed" =>
            /\ pc' = "failed"
            /\ info' = info
            /\ fetchCount' = fetchCount
            /\ modelRoot' = modelRoot
            /\ rendering' = rendering]_vars

C10_Witness ==
    /\ pc = "failed"
    /\ fetchState["default.png"] = "ok"
    /\ fetchState["example_stand.geo.json"] = "notok"
    /\ info[1] = "Failed to initialize Three.js"

=============================================================================
